---- MODULE Spec2Model ----
(***************************************************************************)
(* Model of statusbar (src/src/main.rs): a collector thread samples the    *)
(* host once per tick and sends each sample on a per-metric mpsc channel;  *)
(* an updater thread polls the channels with try_recv, keeps the last      *)
(* value of each metric, formats the status and hands it to xsetroot.      *)
(***************************************************************************)
EXTENDS Integers, Sequences, FiniteSets, TLC

(***************************************************************************)
(* Bounds of the model.                                                    *)
(***************************************************************************)
\* The collector loop is cut after this many iterations.
MaxTicks == 2
\* Width of the model's unsigned word, standing for the 64 bits of u64.
WordBits == 20
\* The longest interface list drawn for format_ip_addresses.
MaxAddrs == 3

Wrap == 2 ^ WordBits

\* u8::MAX + 1, the range of parse::<u8>() in get_ac_online_status.
U8Range == 256

(***************************************************************************)
(* Option<T>: None is the empty sequence, Some(v) the sequence <<v>>.      *)
(***************************************************************************)
None == <<>>
Some(v) == <<v>>
IsSome(o) == o # <<>>
Unwrap(o) == o[1]

(***************************************************************************)
(* A file of the host as read_to_string and parse see it: whether it can   *)
(* be read, its trimmed text, and whether that text is an unsigned decimal *)
(* numeral (of value val).                                                 *)
(***************************************************************************)
NoFile == [readable |-> FALSE, text |-> "", num |-> FALSE, val |-> 0]
TextFile(s) == [readable |-> TRUE, text |-> s, num |-> FALSE, val |-> 0]
NumFile(s, n) == [readable |-> TRUE, text |-> s, num |-> TRUE, val |-> n]

\* std::fs::read_to_string(path).ok()
read_to_string(f) == IF f.readable THEN Some(f) ELSE None

\* s.trim().parse::<u64>().ok(): a numeral that fits the word.
parse_u64(f) == IF f.num /\ f.val < Wrap THEN Some(f.val) ELSE None

\* A parse that keeps the low eight bits of a numeral that does not fit.
parse_u8_truncating(f) == IF f.num THEN Some(f.val % U8Range) ELSE None

\* s.trim().parse::<u8>().ok()
parse_u8(f) == IF f.num /\ f.val < U8Range THEN Some(f.val) ELSE None

read_battery_capacity(f) ==
    IF IsSome(read_to_string(f)) THEN Some(f.text) ELSE None

read_power_uw(f) ==
    IF IsSome(read_to_string(f)) THEN parse_u64(f) ELSE None

get_ac_online_status(f) ==
    IF IsSome(read_to_string(f)) /\ IsSome(parse_u8(f))
    THEN Unwrap(parse_u8(f)) = 1
    ELSE FALSE

(***************************************************************************)
(* Word arithmetic.  An operation that leaves the word either panics (a    *)
(* build with overflow checks) or wraps (a build without); checked says    *)
(* which build runs.  A result is [panic, val]; a panic names its cause.   *)
(***************************************************************************)
Ok(v) == [panic |-> "", val |-> v]
Panic(why) == [panic |-> why, val |-> 0]

u64_sub(a, b, checked) ==
    IF a < b /\ checked THEN Panic("attempt to subtract with overflow")
    ELSE Ok((a - b) % Wrap)

u64_mul(a, b, checked) ==
    IF a * b >= Wrap /\ checked THEN Panic("attempt to multiply with overflow")
    ELSE Ok((a * b) % Wrap)

u64_add(a, b, checked) ==
    IF a + b >= Wrap /\ checked THEN Panic("attempt to add with overflow")
    ELSE Ok((a + b) % Wrap)

\* Integer division panics on a zero divisor in every build.
u64_div(a, b) ==
    IF b = 0 THEN Panic("attempt to divide by zero") ELSE Ok(a \div b)

(***************************************************************************)
(* get_memory_usage_percent.  /proc/meminfo is a sequence of lines, a line *)
(* [parts, key, tok]: the number of whitespace-separated parts, the first  *)
(* part, and the second part as parse::<u64>() sees it.                    *)
(***************************************************************************)
MemLine(k, f) == [parts |-> 2, key |-> k, tok |-> f]
ShortLine(k) == [parts |-> 1, key |-> k, tok |-> NoFile]

\* The for loop over meminfo.lines(), from line i with the two options so far.
RECURSIVE ScanMeminfo(_, _, _, _)
ScanMeminfo(lines, i, mem_total, mem_available) ==
    IF i > Len(lines) THEN <<mem_total, mem_available>>
    ELSE LET l == lines[i]
             t == IF l.parts >= 2 /\ l.key = "MemTotal:"
                  THEN parse_u64(l.tok) ELSE mem_total
             a == IF l.parts >= 2 /\ l.key = "MemAvailable:"
                  THEN parse_u64(l.tok) ELSE mem_available
         IN  IF l.parts < 2 THEN ScanMeminfo(lines, i + 1, mem_total, mem_available)
             ELSE IF IsSome(t) /\ IsSome(a) THEN <<t, a>>
             ELSE ScanMeminfo(lines, i + 1, t, a)

\* A memory reading that answers 0 where the code answers None.
get_memory_usage_percent_or_zero(meminfo, checked) ==
    IF ~meminfo.readable THEN Ok(Some(0))
    ELSE LET r == ScanMeminfo(meminfo.lines, 1, None, None)
         IN  IF ~IsSome(r[1]) \/ ~IsSome(r[2]) THEN Ok(Some(0))
             ELSE LET total == Unwrap(r[1])
                      available == Unwrap(r[2])
                      d == u64_sub(total, available, checked)
                      m == u64_mul(d.val, 100, checked)
                      q == u64_div(m.val, total)
                  IN  IF d.panic # "" THEN d
                      ELSE IF m.panic # "" THEN m
                      ELSE IF q.panic # "" THEN q
                      ELSE Ok(Some(q.val))

\* The result is [panic, val]: val is the Option<u64> returned, panic the
\* cause when the call does not return.
get_memory_usage_percent(meminfo, checked) ==
    IF ~meminfo.readable THEN Ok(None)
    ELSE LET r == ScanMeminfo(meminfo.lines, 1, None, None)
         IN  IF ~IsSome(r[1]) \/ ~IsSome(r[2]) THEN Ok(None)
             ELSE LET total == Unwrap(r[1])
                      available == Unwrap(r[2])
                      d == u64_sub(total, available, checked)
                      m == u64_mul(d.val, 100, checked)
                      q == u64_div(m.val, total)
                  IN  IF d.panic # "" THEN d
                      ELSE IF m.panic # "" THEN m
                      ELSE IF q.panic # "" THEN q
                      ELSE Ok(Some(q.val))

(***************************************************************************)
(* get_wifi_ssid.  The nl80211 answer is [ok, ifaces]: whether the socket  *)
(* and the query succeeded, and the interfaces, each [name, ssid] with the *)
(* decoded name and SSID as options.                                       *)
(***************************************************************************)
RECURSIVE FindIface(_, _, _)
FindIface(ifaces, i, interface) ==
    IF i > Len(ifaces) THEN None
    ELSE IF IsSome(ifaces[i].name) /\ Unwrap(ifaces[i].name) = interface
         THEN Some(ifaces[i])
         ELSE FindIface(ifaces, i + 1, interface)

get_wifi_ssid(wifi, interface) ==
    IF ~wifi.ok THEN None
    ELSE LET found == FindIface(wifi.ifaces, 1, interface)
         IN  IF IsSome(found) THEN Unwrap(found).ssid ELSE None

(***************************************************************************)
(* format_ip_addresses.  list_afinet_netifas() answers [ok, list], the     *)
(* list holding [name, ip, v4] entries; interfaces is args.interface.      *)
(***************************************************************************)
Contains(seq, x) == \E i \in 1..Len(seq) : seq[i] = x

\* The first loop: the (name, ip) pairs kept, from entry i on.
\* The first loop without its any(..) test: an address is pushed once for
\* every listed interface that carries it.
RECURSIVE CollectAddresses_keeps_duplicates(_, _, _, _)
CollectAddresses_keeps_duplicates(network_interfaces, i, interfaces, ip_addresses) ==
    IF i > Len(network_interfaces) THEN ip_addresses
    ELSE LET e == network_interfaces[i]
             keep == Contains(interfaces, e.name) /\ e.v4
         IN  CollectAddresses_keeps_duplicates(network_interfaces, i + 1, interfaces,
                 IF keep THEN Append(ip_addresses, <<e.name, e.ip>>)
                 ELSE ip_addresses)

RECURSIVE CollectAddresses(_, _, _, _)
CollectAddresses(network_interfaces, i, interfaces, ip_addresses) ==
    IF i > Len(network_interfaces) THEN ip_addresses
    ELSE LET e == network_interfaces[i]
             keep == /\ Contains(interfaces, e.name)
                     /\ e.v4
                     /\ ~\E j \in 1..Len(ip_addresses) : ip_addresses[j][2] = e.ip
         IN  CollectAddresses(network_interfaces, i + 1, interfaces,
                 IF keep THEN Append(ip_addresses, <<e.name, e.ip>>)
                 ELSE ip_addresses)

\* The second loop: the text pushed for entries i.. of ip_addresses.
RECURSIVE JoinAddresses(_, _, _)
JoinAddresses(ip_addresses, i, wifi) ==
    IF i > Len(ip_addresses) THEN ""
    ELSE LET ssid == get_wifi_ssid(wifi, ip_addresses[i][1])
         IN  ip_addresses[i][2]
             \o (IF IsSome(ssid) THEN "[" \o Unwrap(ssid) \o "]" ELSE "")
             \o (IF i # Len(ip_addresses) THEN ", " ELSE "")
             \o JoinAddresses(ip_addresses, i + 1, wifi)

format_ip_addresses(interfaces, netifas, wifi) ==
    LET network_interfaces == IF netifas.ok THEN netifas.list ELSE <<>>
        ip_addresses == CollectAddresses(network_interfaces, 1, interfaces, <<>>)
    IN  "[" \o JoinAddresses(ip_addresses, 1, wifi) \o "]"

(***************************************************************************)
(* format_battery_status                                                   *)
(***************************************************************************)
\* format_battery_status without its is_empty() test of battery_levels.
format_battery_status_always(bat0, bat1) ==
    " bat [" \o (IF bat0 # "" THEN bat0 \o "%" ELSE "")
             \o (IF bat0 # "" /\ bat1 # "" THEN ", " ELSE "")
             \o (IF bat1 # "" THEN bat1 \o "%" ELSE "") \o "],"

format_battery_status(bat0, bat1) ==
    LET l0 == IF bat0 # "" THEN <<bat0 \o "%">> ELSE <<>>
        battery_levels == IF bat1 # "" THEN Append(l0, bat1 \o "%") ELSE l0
    IN  IF battery_levels = <<>> THEN ""
        ELSE IF Len(battery_levels) = 1 THEN " bat [" \o battery_levels[1] \o "],"
        ELSE " bat [" \o battery_levels[1] \o ", " \o battery_levels[2] \o "],"

(***************************************************************************)
(* The CPU average of the collector: the sum of the per-core readings over *)
(* their number, rounded up.  An f32 is [nan, val]; no cores give 0.0/0.0, *)
(* which is NaN, and NaN.ceil() is NaN.                                    *)
(***************************************************************************)
F32(v) == [nan |-> FALSE, val |-> v]
NaN == [nan |-> TRUE, val |-> 0]

RECURSIVE SumSeq(_, _)
SumSeq(seq, i) == IF i > Len(seq) THEN 0 ELSE seq[i] + SumSeq(seq, i + 1)

avg_cpu_usage(cpus) ==
    IF Len(cpus) = 0 THEN NaN
    ELSE F32((SumSeq(cpus, 1) + Len(cpus) - 1) \div Len(cpus))

(***************************************************************************)
(* The host conditions a collector iteration may meet: what each source    *)
(* holds while the iteration reads it.                                     *)
(***************************************************************************)
Meminfo(total, available) ==
    [readable |-> TRUE,
     lines |-> <<MemLine("MemTotal:", total),
                 MemLine("MemFree:", NumFile("7", 7)),
                 MemLine("MemAvailable:", available),
                 MemLine("Buffers:", NumFile("1", 1))>>]

\* A laptop on AC: two batteries, two interfaces sharing one address.
HostA ==
    [bat0 |-> NumFile("80", 80), bat1 |-> NumFile("55", 55),
     pow0 |-> NumFile("500000", 500000), pow1 |-> NumFile("300000", 300000),
     ac |-> NumFile("1", 1),
     meminfo |-> Meminfo(NumFile("50", 50), NumFile("29", 29)),
     cpus |-> <<10, 11>>,
     netifas |-> [ok |-> TRUE,
                  list |-> <<[name |-> "lo", ip |-> "127.0.0.1", v4 |-> TRUE],
                             [name |-> "wlan0", ip |-> "10.0.0.2", v4 |-> TRUE],
                             [name |-> "wlan0", ip |-> "fe80::1", v4 |-> FALSE],
                             [name |-> "eth0", ip |-> "10.0.0.2", v4 |-> TRUE]>>],
     wifi |-> [ok |-> TRUE,
               ifaces |-> <<[name |-> None, ssid |-> Some("other")],
                            [name |-> Some("wlan0"), ssid |-> Some("home")]>>]]

\* The same laptop a little later, on battery, under load, on the wire.
HostB ==
    [bat0 |-> NumFile("79", 79), bat1 |-> NumFile("54", 54),
     pow0 |-> NumFile("600000", 600000), pow1 |-> NumFile("400000", 400000),
     ac |-> NumFile("0", 0),
     meminfo |-> Meminfo(NumFile("40", 40), NumFile("10", 10)),
     cpus |-> <<100, 100>>,
     netifas |-> [ok |-> TRUE,
                  list |-> <<[name |-> "eth0", ip |-> "192.168.1.7", v4 |-> TRUE],
                             [name |-> "wlan0", ip |-> "10.0.0.2", v4 |-> TRUE]>>],
     wifi |-> [ok |-> FALSE, ifaces |-> <<>>]]

\* Every source unreadable, no core listed, no interface list.
HostDown ==
    [bat0 |-> NoFile, bat1 |-> NoFile, pow0 |-> NoFile, pow1 |-> NoFile,
     ac |-> NoFile,
     meminfo |-> [readable |-> FALSE, lines |-> <<>>],
     cpus |-> <<>>,
     netifas |-> [ok |-> FALSE, list |-> <<>>],
     wifi |-> [ok |-> FALSE, ifaces |-> <<>>]]

\* Every source readable and malformed: an empty capacity file, power that
\* is no numeral or does not fit the word, an AC code that is not 1, a
\* meminfo without a usable MemAvailable.
HostMalformed ==
    [bat0 |-> TextFile(""), bat1 |-> TextFile("n/a"),
     pow0 |-> TextFile("n/a"), pow1 |-> NumFile("huge", Wrap),
     ac |-> NumFile("2", 2),
     meminfo |-> [readable |-> TRUE,
                  lines |-> <<MemLine("MemTotal:", NumFile("50", 50)),
                              ShortLine("MemAvailable:"),
                              MemLine("MemAvailable:", TextFile("kB"))>>],
     cpus |-> <<0>>,
     netifas |-> [ok |-> TRUE, list |-> <<>>],
     wifi |-> [ok |-> TRUE, ifaces |-> <<>>]]

\* HostA with the numeric contents of the input domain that the arithmetic
\* of the collector has to survive.
HostMemZero ==
    [HostA EXCEPT !.meminfo = Meminfo(NumFile("0", 0), NumFile("0", 0))]

HostMemInverted ==
    [HostA EXCEPT !.meminfo = Meminfo(NumFile("10", 10), NumFile("20", 20))]

\* Readings at the top of the word: the product by 100 and the sum of the two
\* power readings leave it; and an AC code that leaves the u8, with 1 in
\* its low byte.
HostHuge ==
    [HostA EXCEPT !.meminfo = Meminfo(NumFile("max", Wrap - 1), NumFile("0", 0)),
                  !.pow0 = NumFile("max", Wrap - 1),
                  !.pow1 = NumFile("1", 1),
                  !.ac = NumFile("257", U8Range + 1)]

Hosts ==
    {HostA, HostB, HostDown, HostMalformed,
     HostMemZero, HostMemInverted, HostHuge}

(***************************************************************************)
(* State.                                                                  *)
(***************************************************************************)
\* The seven channels of main, by the name of their tx/rx pair.
Metrics == {"bat0", "bat1", "wattage", "ac_online", "mem", "cpu", "ip_addresses"}

VARIABLES
    mpc,            \* where main is
    cap,            \* the five *_enable flags of main
    interface,      \* args.interface
    sys_host_name,  \* the host name main resolved
    sys_user_name,  \* the user name main resolved
    host,           \* the host condition of the running collector iteration
    cpc,            \* where the collector thread is
    ticks,          \* collector iterations started
    fault,          \* the panic message that ended the collector, or ""
    chan,           \* per channel, the messages sent and not yet received
    rpc,            \* where the X updater thread is
    last,           \* last_bat0 .. last_addrs, by channel
    status,         \* the status of the running updater iteration
    xsetroot,       \* the outcome of the last xsetroot attempt for status
    sent,           \* history: per channel, every message sent
    rcvd,           \* history: per channel, every message try_recv returned
    written         \* history: per channel, every value stored in last

vars == <<mpc, cap, interface, sys_host_name, sys_user_name, host, cpc, ticks,
          fault, chan, rpc, last, status, xsetroot, sent, rcvd, written>>

startup == <<mpc, cap, interface, sys_host_name, sys_user_name>>
collector == <<host, cpc, ticks, fault, sent>>
updater == <<rpc, last, status, xsetroot, rcvd, written>>

Caps ==
    [battery_00_enable : BOOLEAN, battery_01_enable : BOOLEAN,
     bat0_power_enable : BOOLEAN, bat1_power_enable : BOOLEAN,
     ac_online_enable : BOOLEAN]

\* An updater whose last_ac_online starts out true.
Default_ac_online ==
    [m \in Metrics |->
        CASE m = "bat0" -> ""
          [] m = "bat1" -> ""
          [] m = "wattage" -> 0
          [] m = "ac_online" -> TRUE
          [] m = "mem" -> 0
          [] m = "cpu" -> F32(0)
          [] m = "ip_addresses" -> ""]

\* The initial values of last_bat0 .. last_addrs.
Default ==
    [m \in Metrics |->
        CASE m = "bat0" -> ""
          [] m = "bat1" -> ""
          [] m = "wattage" -> 0
          [] m = "ac_online" -> FALSE
          [] m = "mem" -> 0
          [] m = "cpu" -> F32(0)
          [] m = "ip_addresses" -> ""]

\* The state in which main spawns the two threads.
Init ==
    /\ mpc = "scope"
    /\ cap \in Caps
    /\ interface = <<"wlan0", "eth0">>
    /\ sys_host_name = "host"
    /\ sys_user_name = "user"
    /\ host = None
    /\ cpc = "loop"
    /\ ticks = 0
    /\ fault = ""
    /\ chan = [m \in Metrics |-> <<>>]
    /\ rpc = "loop"
    /\ last = Default
    /\ status = None
    /\ xsetroot = ""
    /\ sent = [m \in Metrics |-> <<>>]
    /\ rcvd = [m \in Metrics |-> <<>>]
    /\ written = [m \in Metrics |-> <<>>]

(***************************************************************************)
(* The channels.  std::sync::mpsc::channel() is unbounded: send appends    *)
(* and fails only once the receiver is dropped, which the updater thread,  *)
(* owning every rx and never returning, does not do; so the               *)
(* while tx.send(..).is_err() loops run their body zero times.            *)
(***************************************************************************)
\* A single-slot channel: a send while a message is pending is dropped.
send_lossy(q, v) == IF q = <<>> THEN Append(q, v) ELSE q

\* tx.send(v) on queue q.
send(q, v) == Append(q, v)

\* A receive that takes the newest pending message instead of the oldest.
try_recv_newest(q) ==
    IF q = <<>> THEN [msg |-> None, rest |-> q]
    ELSE [msg |-> Some(q[Len(q)]), rest |-> SubSeq(q, 1, Len(q) - 1)]

\* A receive that empties the queue and returns its newest message.
try_recv_drain(q) ==
    IF q = <<>> THEN [msg |-> None, rest |-> q]
    ELSE [msg |-> Some(q[Len(q)]), rest |-> <<>>]

\* rx.try_recv() on queue q: [msg, rest], msg the option received.
try_recv(q) ==
    IF q = <<>> THEN [msg |-> None, rest |-> q]
    ELSE [msg |-> Some(Head(q)), rest |-> Tail(q)]

\* A send on a channel of capacity one, which waits while a message is
\* pending.
Send_bounded(m, v, next) ==
    /\ chan[m] = <<>>
    /\ chan' = [chan EXCEPT ![m] = send(@, v)]
    /\ sent' = [sent EXCEPT ![m] = Append(@, v)]
    /\ cpc' = next
    /\ UNCHANGED <<host, ticks, fault>>

\* The collector: send v on channel m and go on at next.
Send(m, v, next) ==
    /\ chan' = [chan EXCEPT ![m] = send(@, v)]
    /\ sent' = [sent EXCEPT ![m] = Append(@, v)]
    /\ cpc' = next
    /\ UNCHANGED <<host, ticks, fault>>

\* The collector: nothing to send, go on at next.
Skip(next) ==
    /\ cpc' = next
    /\ UNCHANGED <<chan, sent, host, ticks, fault>>

\* The collector thread unwinds: its senders are dropped, what it sent stays
\* receivable.
Unwind(why) ==
    /\ cpc' = "panicked"
    /\ fault' = why
    /\ UNCHANGED <<chan, sent, host, ticks>>

(***************************************************************************)
(* The collector thread, one action per statement of its loop.             *)
(***************************************************************************)
\* loop {: the iteration meets one of the host conditions.
CollectorLoop ==
    /\ cpc = "loop"
    /\ ticks < MaxTicks
    /\ \E h \in Hosts : host' = Some(h)
    /\ ticks' = ticks + 1
    /\ cpc' = "bat0"
    /\ UNCHANGED <<fault, chan, sent, startup, updater>>

\* The sample of a battery: Some(capacity) to send, or None.
battery_sample(enable, f) ==
    IF enable THEN read_battery_capacity(f) ELSE None

CollectBat0 ==
    /\ cpc = "bat0"
    /\ LET bat0 == battery_sample(cap.battery_00_enable, Unwrap(host).bat0)
       IN  IF IsSome(bat0) THEN Send("bat0", Unwrap(bat0), "bat1")
           ELSE Skip("bat1")
    /\ UNCHANGED <<startup, updater>>

CollectBat1 ==
    /\ cpc = "bat1"
    /\ LET bat1 == battery_sample(cap.battery_01_enable, Unwrap(host).bat1)
       IN  IF IsSome(bat1) THEN Send("bat1", Unwrap(bat1), "wattage")
           ELSE Skip("wattage")
    /\ UNCHANGED <<startup, updater>>

\* total_wattage_uw after the two guarded additions, as [panic, val].
total_wattage_uw(c, h, checked) ==
    LET p0 == IF c.bat0_power_enable THEN read_power_uw(h.pow0) ELSE None
        p1 == IF c.bat1_power_enable THEN read_power_uw(h.pow1) ELSE None
        t0 == IF IsSome(p0) THEN u64_add(0, Unwrap(p0), checked) ELSE Ok(0)
        t1 == IF IsSome(p1) THEN u64_add(t0.val, Unwrap(p1), checked) ELSE t0
    IN  IF t0.panic # "" THEN t0 ELSE t1

\* The f64 total_wattage is held as the microwatts it was converted from
\* (u64 as f64 is exact below 2^53, / 1_000_000.0 is undone by no later step).
CollectWattage ==
    /\ cpc = "wattage"
    /\ \E checked \in BOOLEAN :
         LET t == total_wattage_uw(cap, Unwrap(host), checked)
         IN  IF t.panic # "" THEN Unwind(t.panic)
             ELSE Send("wattage", t.val, "ac_online")
    /\ UNCHANGED <<startup, updater>>

\* A collector that probes the AC sensor whatever its flag.
ac_online_sample_unguarded(enable, f) == get_ac_online_status(f)

\* The value of ac_online.
ac_online_sample(enable, f) ==
    IF enable THEN get_ac_online_status(f) ELSE FALSE

CollectAc ==
    /\ cpc = "ac_online"
    /\ Send("ac_online", ac_online_sample(cap.ac_online_enable, Unwrap(host).ac), "mem")
    /\ UNCHANGED <<startup, updater>>

CollectMem ==
    /\ cpc = "mem"
    /\ \E checked \in BOOLEAN :
         LET r == get_memory_usage_percent(Unwrap(host).meminfo, checked)
         IN  IF r.panic # "" THEN Unwind(r.panic)
             ELSE IF IsSome(r.val) THEN Send("mem", Unwrap(r.val), "cpu")
             ELSE Skip("cpu")
    /\ UNCHANGED <<startup, updater>>

\* The send of the CPU average, then drop(sys) and
\* std::thread::sleep(Duration::from_secs(1)).
CollectCpu ==
    /\ cpc = "cpu"
    /\ Send("cpu", avg_cpu_usage(Unwrap(host).cpus), "ip_addresses")
    /\ UNCHANGED <<startup, updater>>

\* The last statement of the iteration: back to loop {.
CollectIp ==
    /\ cpc = "ip_addresses"
    /\ chan' = [chan EXCEPT !["ip_addresses"] =
                   send(@, format_ip_addresses(interface, Unwrap(host).netifas,
                                               Unwrap(host).wifi))]
    /\ sent' = [sent EXCEPT !["ip_addresses"] =
                   Append(@, format_ip_addresses(interface, Unwrap(host).netifas,
                                                 Unwrap(host).wifi))]
    /\ cpc' = "loop"
    /\ host' = None
    /\ UNCHANGED <<ticks, fault, startup, updater>>

Collector ==
    \/ CollectorLoop
    \/ CollectBat0
    \/ CollectBat1
    \/ CollectWattage
    \/ CollectAc
    \/ CollectMem
    \/ CollectCpu
    \/ CollectIp

(***************************************************************************)
(* The format specifications of the status line.                           *)
(***************************************************************************)
Digits == <<"0", "1", "2", "3", "4", "5", "6", "7", "8", "9">>

\* Display of an unsigned integer.
RECURSIVE Dec(_)
Dec(n) == IF n < 10 THEN Digits[n + 1] ELSE Dec(n \div 10) \o Digits[(n % 10) + 1]

\* {:02} of an unsigned integer.
fmt_02(n) == IF n < 10 THEN "0" \o Dec(n) ELSE Dec(n)

\* {:02} of an f32 holding a whole number, or NaN.
fmt_f32_02(x) == IF x.nan THEN "NaN" ELSE fmt_02(x.val)

\* {:.1} of the wattage: the microwatts over 1_000_000.0, to the nearest
\* tenth (no value of the model lies halfway between two tenths).
fmt_wattage(uw) ==
    LET tenths == (uw + 50000) \div 100000
    IN  Dec(tenths \div 10) \o "." \o Dec(tenths % 10)

\* The arguments of write!, in the order of the format string; the local
\* time that ends the line is not modelled.
compose_status(l) ==
    [host |-> sys_host_name,
     user |-> sys_user_name,
     cpu |-> fmt_f32_02(l["cpu"]),
     mem |-> fmt_02(l["mem"]),
     net |-> l["ip_addresses"],
     battery_s |-> format_battery_status(l["bat0"], l["bat1"]),
     pwr |-> fmt_wattage(l["wattage"]),
     ac_indicator |-> IF l["ac_online"] THEN " [AC]" ELSE ""]

\* The text written into status.
status_line(st) ==
    "[" \o st.host \o "][" \o st.user \o "] => cpu " \o st.cpu \o "%, mem "
    \o st.mem \o "%, net " \o st.net \o "," \o st.battery_s \o " pwr "
    \o st.pwr \o "W" \o st.ac_indicator \o ", "

(***************************************************************************)
(* The X updater thread.  The statements of an iteration up to the inner   *)
(* xsetroot loop touch the shared state only in the seven try_recv calls,  *)
(* none of which waits: they are one action, the iteration's poll.         *)
(***************************************************************************)
\* A blocking rx.recv(): it returns only once a message is pending.
ready_recv(q) == q # <<>>

\* Whether the poll of queue q returns at once: try_recv never waits.
ready(q) == TRUE

\* The flag an if let Ok(v) = rx.try_recv() && flag { last = v } tests.
write_enable(c, m) ==
    CASE m = "bat0" -> c.battery_00_enable
      [] m = "bat1" -> c.battery_01_enable
      [] OTHER -> TRUE

\* The value of last for channel m after polling it with result r.
store(c, m, r, old) ==
    IF IsSome(r.msg) /\ write_enable(c, m) THEN Unwrap(r.msg) ELSE old

\* status.clear(), the seven polls (each takes the message whatever its
\* flag says) and write!(status, ..): fmt::Write for String returns no
\* error, so the Err arm of write! is never taken.
UpdaterPoll ==
    /\ rpc = "loop"
    /\ \A m \in Metrics : ready(chan[m])
    /\ chan' = [m \in Metrics |-> try_recv(chan[m]).rest]
    /\ rcvd' = [m \in Metrics |->
                  IF IsSome(try_recv(chan[m]).msg)
                  THEN Append(rcvd[m], Unwrap(try_recv(chan[m]).msg))
                  ELSE rcvd[m]]
    /\ last' = [m \in Metrics |-> store(cap, m, try_recv(chan[m]), last[m])]
    /\ written' = [m \in Metrics |->
                     IF IsSome(try_recv(chan[m]).msg) /\ write_enable(cap, m)
                     THEN Append(written[m], Unwrap(try_recv(chan[m]).msg))
                     ELSE written[m]]
    /\ status' = Some(compose_status(last'))
    /\ xsetroot' = ""
    /\ rpc' = "xsetroot"
    /\ UNCHANGED <<startup, collector>>

\* Command::new("xsetroot").args(["-name", &status]).status() is Ok(_):
\* break, std::thread::sleep(Duration::from_secs(1)), and loop { again.
XsetrootOk ==
    /\ rpc = "xsetroot"
    /\ xsetroot' = "Ok"
    /\ rpc' = "loop"
    /\ UNCHANGED <<last, status, rcvd, written, chan, startup, collector>>

\* An updater that gives the line up when xsetroot fails.
XsetrootErr_gives_up ==
    /\ rpc = "xsetroot"
    /\ xsetroot' = "Err"
    /\ rpc' = "loop"
    /\ UNCHANGED <<last, status, rcvd, written, chan, startup, collector>>

\* .. is Err(_): sleep 100 ms and continue the inner loop.
XsetrootErr ==
    /\ rpc = "xsetroot"
    /\ xsetroot' = "Err"
    /\ rpc' = "xsetroot"
    /\ UNCHANGED <<last, status, rcvd, written, chan, startup, collector>>

Updater ==
    \/ UpdaterPoll
    \/ XsetrootOk
    \/ XsetrootErr

Next == Collector \/ Updater

Spec == Init /\ [][Next]_vars

\* The updater thread is scheduled again and again, and xsetroot does not
\* fail forever.  Nothing is assumed of the collector.
LiveSpec == Spec /\ WF_vars(UpdaterPoll) /\ WF_vars(XsetrootOk)

(***************************************************************************)
(* format_ip_addresses on drawn inputs: the collector stands before the    *)
(* statement that calls it, with an allow-list and a host whose interface  *)
(* list is any sequence of at most MaxAddrs (name, address) pairs.         *)
(***************************************************************************)
NetNames == {"lo", "wlan0", "eth0"}

NetAddrs ==
    {[ip |-> "10.0.0.2", v4 |-> TRUE], [ip |-> "192.168.1.7", v4 |-> TRUE],
     [ip |-> "fe80::1", v4 |-> FALSE]}

NetEntries == {[name |-> n, ip |-> a.ip, v4 |-> a.v4] : n \in NetNames, a \in NetAddrs}

SeqsUpTo(S, n) == UNION {[1..k -> S] : k \in 0..n}

\* What list_afinet_netifas() and the nl80211 socket may answer.
NetHosts ==
    {HostDown} \cup
    {[HostDown EXCEPT !.netifas = [ok |-> TRUE, list |-> l], !.wifi = w] :
        l \in SeqsUpTo(NetEntries, MaxAddrs), w \in {HostA.wifi, HostDown.wifi}}

\* Values of args.interface.
AllowLists == {<<>>, <<"wlan0">>, <<"eth0", "wlan0">>, <<"lo", "wlan0", "eth0">>}

IpInit ==
    /\ mpc = "scope"
    /\ cap = CHOOSE c \in Caps : \A f \in DOMAIN c : ~c[f]
    /\ interface \in AllowLists
    /\ sys_host_name = "host"
    /\ sys_user_name = "user"
    /\ host \in {Some(h) : h \in NetHosts}
    /\ cpc = "ip_addresses"
    /\ ticks = 1
    /\ fault = ""
    /\ chan = [m \in Metrics |-> <<>>]
    /\ rpc = "loop"
    /\ last = Default
    /\ status = None
    /\ xsetroot = ""
    /\ sent = [m \in Metrics |-> <<>>]
    /\ rcvd = [m \in Metrics |-> <<>>]
    /\ written = [m \in Metrics |-> <<>>]

IpNext == CollectIp

IpSpec == IpInit /\ [][IpNext]_vars

(***************************************************************************)
(* main from the first use of sys to the spawn of the two threads: the     *)
(* process id, the user name, the host name.  Until main spawns them the   *)
(* threads stand at "unspawned".                                           *)
(***************************************************************************)
\* The value of sys_host_name and sys_user_name before let binds them.
Unbound == "<unbound>"

\* What sys.process(pid) may return: no process, one without a user id, one
\* with the user id 1000.
Processes == {None, Some([user_id |-> None]), Some([user_id |-> Some(1000)])}

\* What Users::new_with_refreshed_list() may hold.
UserLists == {{}, {[id |-> 0, name |-> "root"]},
              {[id |-> 0, name |-> "root"], [id |-> 1000, name |-> "user"]}}

\* Values of args.username.
Usernames == {None, Some("alice")}

\* let name = if let Some(username) = &args.username { .. } else { .. };
user_name(username, process, users) ==
    IF IsSome(username) THEN Unwrap(username)
    ELSE IF IsSome(process)
    THEN IF IsSome(Unwrap(process).user_id)
         THEN IF \E u \in users : u.id = Unwrap(Unwrap(process).user_id)
              THEN (CHOOSE u \in users : u.id = Unwrap(Unwrap(process).user_id)).name
              ELSE ""
         ELSE ""
    ELSE ""

\* The flags of a host with none and with all of the optional resources.
StartCaps == {c \in Caps : \A f, g \in DOMAIN c : c[f] = c[g]}

StartInit ==
    /\ mpc = "pid"
    /\ cap \in StartCaps
    /\ interface = <<"wlan0", "eth0">>
    /\ sys_host_name = Unbound
    /\ sys_user_name = Unbound
    /\ host = None
    /\ cpc = "unspawned"
    /\ ticks = 0
    /\ fault = ""
    /\ chan = [m \in Metrics |-> <<>>]
    /\ rpc = "unspawned"
    /\ last = Default
    /\ status = None
    /\ xsetroot = ""
    /\ sent = [m \in Metrics |-> <<>>]
    /\ rcvd = [m \in Metrics |-> <<>>]
    /\ written = [m \in Metrics |-> <<>>]

\* get_current_pid() is Err(_): sleep 100 ms and continue.
GetPidErr ==
    /\ mpc = "pid"
    /\ UNCHANGED vars

\* get_current_pid() is Ok(pid): break pid.
GetPidOk ==
    /\ mpc = "pid"
    /\ mpc' = "name"
    /\ UNCHANGED <<cap, interface, sys_host_name, sys_user_name, chan,
                   collector, updater>>

\* let name = ..: evaluated once, whatever it finds.
ResolveName ==
    /\ mpc = "name"
    /\ \E username \in Usernames, process \in Processes, users \in UserLists :
          sys_user_name' = user_name(username, process, users)
    /\ mpc' = "hostname"
    /\ UNCHANGED <<cap, interface, sys_host_name, chan, collector, updater>>

\* System::host_name() is None: sleep 100 ms and continue.
HostNameNone ==
    /\ mpc = "hostname"
    /\ UNCHANGED vars

\* System::host_name() is Some(name): break name.
HostNameSome ==
    /\ mpc = "hostname"
    /\ sys_host_name' = "host"
    /\ mpc' = "spawn"
    /\ UNCHANGED <<cap, interface, sys_user_name, chan, collector, updater>>

\* std::thread::scope with its two x.spawn calls.
Spawn ==
    /\ mpc = "spawn"
    /\ mpc' = "scope"
    /\ cpc' = "loop"
    /\ rpc' = "loop"
    /\ UNCHANGED <<cap, interface, sys_host_name, sys_user_name, chan,
                   host, ticks, fault, sent, last, status, xsetroot, rcvd, written>>

Main ==
    \/ GetPidErr
    \/ GetPidOk
    \/ ResolveName
    \/ HostNameNone
    \/ HostNameSome
    \/ Spawn

StartNext == Main \/ Next

StartSpec == StartInit /\ [][StartNext]_vars

(***************************************************************************)
(* Properties.                                                             *)
(***************************************************************************)
Last(q) == q[Len(q)]

IsPrefix(p, q) == Len(p) <= Len(q) /\ SubSeq(q, 1, Len(p)) = p

\* A step of the updater that polls the channels.
PollStep == rpc = "loop" /\ rpc' = "xsetroot"

\* C1: if N >= 1 samples are pending on a channel when an updater iteration
\* polls it, then after the poll last holds the Nth (newest) of them and
\* none of the N is still pending.
C1_PollLeavesNewest ==
    [][PollStep =>
         \A m \in Metrics :
            Len(chan[m]) >= 1 =>
               /\ last'[m] = Last(chan[m])
               /\ chan'[m] = <<>>]_vars

\* C3: per channel, what the updater has received is a prefix of what the
\* collector has sent: same order, nothing twice, nothing skipped.
C3_PerMetricFifo ==
    \A m \in Metrics : IsPrefix(rcvd[m], sent[m])

\* Two different samples of one metric, both received, in the order sent.
C3_Witness ==
    /\ rcvd["bat0"] = <<"80", "79">>
    /\ sent["bat0"] = <<"80", "79">>
    /\ Len(rcvd["ip_addresses"]) = 1

\* C4: an optional metric whose flag is false (both power flags, for the
\* wattage) keeps the initial value of its last_* variable.
C4_DisabledStaysDefault ==
    /\ ~cap.battery_00_enable => last["bat0"] = Default["bat0"]
    /\ ~cap.battery_01_enable => last["bat1"] = Default["bat1"]
    /\ (~cap.bat0_power_enable /\ ~cap.bat1_power_enable)
          => last["wattage"] = Default["wattage"]
    /\ ~cap.ac_online_enable => last["ac_online"] = Default["ac_online"]

\* Nothing optional is enabled, and the updater has received and stored the
\* wattage and AC messages of two collector iterations.
C4_Witness ==
    /\ \A f \in DOMAIN cap : ~cap[f]
    /\ Len(written["wattage"]) = 2
    /\ Len(written["ac_online"]) = 2
    /\ Len(rcvd["mem"]) = 2

\* Whether the meminfo of host condition h yields both numbers.
MemParsed(h) ==
    /\ h.meminfo.readable
    /\ IsSome(ScanMeminfo(h.meminfo.lines, 1, None, None)[1])
    /\ IsSome(ScanMeminfo(h.meminfo.lines, 1, None, None)[2])

\* The collector statement for channel m runs.
Runs(m) == cpc = m /\ cpc' # cpc

\* The collector statement for channel m runs and does not unwind.
Returns(m) == Runs(m) /\ cpc' # "panicked"

\* One more message is pending on channel m.
Enqueued(m) == Len(chan'[m]) = Len(chan[m]) + 1 /\ sent'[m] = Append(sent[m], Last(chan'[m]))

\* The k-th message sent on channel m has been received and stored in last,
\* as the k-th one.
Stored(m, k) ==
    /\ Len(rcvd[m]) >= k /\ rcvd[m][k] = sent[m][k]
    /\ Len(written[m]) >= k /\ written[m][k] = sent[m][k]

\* C2: a value a source returned in a collector iteration is enqueued on
\* its channel, and every value sent is eventually received by the updater
\* and stored in last, in its place in the order sent.  The histories only
\* grow, so "the k-th message, once sent, is eventually stored" is
\* "eventually always: sent implies stored".
C2_NoSampleDropped ==
    /\ [][/\ (Returns("bat0") /\ cap.battery_00_enable /\ Unwrap(host).bat0.readable)
              => (Enqueued("bat0") /\ Last(chan'["bat0"]) = Unwrap(host).bat0.text)
          /\ (Returns("bat1") /\ cap.battery_01_enable /\ Unwrap(host).bat1.readable)
              => (Enqueued("bat1") /\ Last(chan'["bat1"]) = Unwrap(host).bat1.text)
          /\ Returns("wattage") => Enqueued("wattage")
          /\ Returns("ac_online") => Enqueued("ac_online")
          /\ (Returns("mem") /\ MemParsed(Unwrap(host))) => Enqueued("mem")
          /\ Returns("cpu") => Enqueued("cpu")
          /\ Returns("ip_addresses") => Enqueued("ip_addresses")]_vars
    /\ \A k \in 1..MaxTicks : <>[](\A m \in Metrics : Len(sent[m]) >= k => Stored(m, k))

\* Both samples of a channel were pending at once, and both have been
\* stored, the second one last.
C2_Witness ==
    /\ sent["mem"] = <<42, 75>>
    /\ written["mem"] = <<42, 75>>
    /\ last["mem"] = 75
    /\ written["bat1"] = <<"55", "54">>
    /\ Len(written["ip_addresses"]) = 2

\* Whether the read behind channel m fails under host condition h (the CPU
\* sampler has no failing outcome).
ReadFails(m, h) ==
    CASE m = "bat0" -> cap.battery_00_enable /\ ~h.bat0.readable
      [] m = "bat1" -> cap.battery_01_enable /\ ~h.bat1.readable
      [] m = "wattage" ->
            \/ cap.bat0_power_enable /\ ~(h.pow0.readable /\ h.pow0.num /\ h.pow0.val < Wrap)
            \/ cap.bat1_power_enable /\ ~(h.pow1.readable /\ h.pow1.num /\ h.pow1.val < Wrap)
      [] m = "mem" -> ~MemParsed(h)
      [] m = "ip_addresses" -> ~h.netifas.ok
      [] OTHER -> FALSE

\* C5: for every enabled metric kind, a collector iteration in which the
\* read or parse of the metric fails sends no message on its channel.
C5_FailedReadSendsNothing ==
    [][\A m \in {"bat0", "bat1", "wattage", "mem", "cpu", "ip_addresses"} :
          (Runs(m) /\ ReadFails(m, Unwrap(host)))
             => (sent'[m] = sent[m] /\ chan'[m] = chan[m])]_vars

\* C6: last_mem_usage is its initial 0 or a value a memory read returned;
\* an iteration whose memory read fails sends nothing on the channel; the
\* value changes only when a message is pending, so once the updater has
\* stored v it keeps and renders v through any number of failed reads.
C6_MemoryStaleRetention ==
    /\ [](\/ last["mem"] = Default["mem"]
          \/ \E i \in 1..Len(sent["mem"]) : sent["mem"][i] = last["mem"])
    /\ [][(Runs("mem") /\ ~MemParsed(Unwrap(host)))
             => (sent'["mem"] = sent["mem"] /\ chan'["mem"] = chan["mem"]
                 /\ cpc' = "cpu")]_vars
    /\ [][chan["mem"] = <<>> => last'["mem"] = last["mem"]]_vars
    /\ [](written["mem"] # <<>> => last["mem"] = Last(written["mem"]))
    /\ [](IsSome(status) => Unwrap(status).mem = fmt_02(last["mem"]))

\* The first iteration read 42, the second one's read failed, and the
\* updater, having polled after both, still renders 42.
C6_Witness ==
    /\ sent["mem"] = <<42>>
    /\ ticks = 2
    /\ Len(rcvd["cpu"]) = 2
    /\ last["mem"] = 42
    /\ IsSome(status)
    /\ Unwrap(status).mem = "42"

\* C7: while xsetroot fails the updater retries the same status: it polls
\* no channel and changes no last_* value, and it leaves the inner loop
\* only on Ok; an iteration polls only after the previous status was
\* accepted; the updater can always take a step.
C7_SinkRetry ==
    /\ [][rpc = "xsetroot"
             => /\ status' = status /\ last' = last
                /\ rcvd' = rcvd /\ written' = written
                /\ rpc' = "xsetroot" \/ (rpc' = "loop" /\ xsetroot' = "Ok")
                /\ xsetroot' = "Err" => rpc' = "xsetroot"]_vars
    /\ [][PollStep => (xsetroot = "Ok" \/ status = None)]_vars
    /\ [](rpc \in {"loop", "xsetroot"} /\ ENABLED Updater)

\* xsetroot has failed for a composed status while messages are pending.
C7_Witness ==
    /\ rpc = "xsetroot"
    /\ xsetroot = "Err"
    /\ IsSome(status)
    /\ Len(chan["mem"]) = 2

\* C8: whatever the collector does or has stopped doing, the updater can
\* take its next step: the poll at the head of the loop, the xsetroot call
\* after it; and a poll leaves last unchanged for every channel with no
\* message pending.
C8_UpdaterNeverWaits ==
    /\ [](rpc = "loop" => ENABLED UpdaterPoll)
    /\ [](rpc = "xsetroot" => ENABLED XsetrootOk)
    /\ [][PollStep => \A m \in Metrics :
             chan[m] = <<>> => (last'[m] = last[m] /\ chan'[m] = <<>>)]_vars

\* The collector has not started, and the updater has completed an
\* iteration and published a status of defaults.
C8_Witness ==
    /\ ticks = 0
    /\ rpc = "loop"
    /\ xsetroot = "Ok"
    /\ IsSome(status)
    /\ last = Default

\* C9: no outcome of any source read stops the collector loop.
C9_CollectorSurvives == cpc # "panicked"

\* The two numbers the meminfo of host condition h yields.
MemPair(h) == ScanMeminfo(h.meminfo.lines, 1, None, None)

\* C10: for every pair MemTotal, MemAvailable that parses, the memory
\* reading is unavailable or the integer floor((MemTotal - MemAvailable)
\* * 100 / MemTotal), in 0..100, computed without leaving the word; so
\* last_mem_usage is always in 0..100.
C10_MemoryPercentExact ==
    /\ [][(Runs("mem") /\ MemParsed(Unwrap(host)))
             => LET total == Unwrap(MemPair(Unwrap(host))[1])
                    available == Unwrap(MemPair(Unwrap(host))[2])
                IN  /\ cpc' # "panicked"
                    /\ sent'["mem"] # sent["mem"]
                          => /\ total > 0
                             /\ available <= total
                             /\ Last(sent'["mem"]) = ((total - available) * 100) \div total
                             /\ Last(sent'["mem"]) \in 0..100]_vars
    /\ [](last["mem"] \in 0..100)

\* The entries of interface list l that the allow-list and the address
\* family let through and that no earlier such entry already carries the
\* address of: the first occurrences, by position.
FirstOccurrences(l, allow) ==
    {i \in 1..Len(l) :
        /\ Contains(allow, l[i].name) /\ l[i].v4
        /\ \A j \in 1..(i - 1) :
              ~(Contains(allow, l[j].name) /\ l[j].v4 /\ l[j].ip = l[i].ip)}

\* The text of the entries of l at the positions K, in ascending position:
\* the address, the SSID of the entry's interface if it has one, a comma
\* and a space before every entry but the first.
RECURSIVE Listing(_, _, _, _)
Listing(l, K, wifi, first) ==
    IF K = {} THEN ""
    ELSE LET i == CHOOSE x \in K : \A y \in K : x <= y
             ssid == get_wifi_ssid(wifi, l[i].name)
         IN  (IF first THEN "" ELSE ", ")
             \o l[i].ip
             \o (IF IsSome(ssid) THEN "[" \o Unwrap(ssid) \o "]" ELSE "")
             \o Listing(l, K \ {i}, wifi, FALSE)

\* C11: for every interface list and every allow-list, the list that
\* format_ip_addresses renders holds exactly the IPv4 addresses of the
\* allowed interfaces, each address once, at its first occurrence (so with
\* the interface that carried it first), in input order; a failed listing
\* and an empty allow-list give the empty list.
C11_IpListFirstOccurrences ==
    [][Runs("ip_addresses")
         => LET h == Unwrap(host)
                l == IF h.netifas.ok THEN h.netifas.list ELSE <<>>
                K == FirstOccurrences(l, interface)
                out == Last(sent'["ip_addresses"])
            IN  /\ sent'["ip_addresses"] = Append(sent["ip_addresses"], out)
                /\ out = "[" \o Listing(l, K, h.wifi, TRUE) \o "]"
                /\ \A i, j \in K : l[i].ip = l[j].ip => i = j
                /\ \A i \in 1..Len(l) :
                      (Contains(interface, l[i].name) /\ l[i].v4)
                         => \E k \in K : k <= i /\ l[k].ip = l[i].ip
                /\ interface = <<>> => out = "[]"]_vars

\* Two allowed interfaces carried the same address, the wired one first:
\* the list shows it once, without the SSID of the wireless one, before the
\* address that came later.
C11_Witness ==
    /\ interface = <<"eth0", "wlan0">>
    /\ cpc = "loop"
    /\ sent["ip_addresses"] = <<"[10.0.0.2, 192.168.1.7[home]]">>

\* The set of the elements of sequence q.
Range(q) == {q[i] : i \in 1..Len(q)}

\* What a rendered line may show for the battery behind channel m: nothing,
\* or, if its flag is true, a capacity the collector read from it.
BatShown(m, enable) ==
    IF enable THEN {""} \cup Range(sent[m]) ELSE {""}

\* The battery segment showing b0 for battery 0 and b1 for battery 1, ""
\* standing for no entry.
BatterySegment(b0, b1) ==
    CASE b0 = "" /\ b1 = "" -> ""
      [] b0 # "" /\ b1 = "" -> " bat [" \o b0 \o "%],"
      [] b0 = "" /\ b1 # "" -> " bat [" \o b1 \o "%],"
      [] OTHER -> " bat [" \o b0 \o "%, " \o b1 \o "%],"

\* C12: the battery segment of every rendered line has an entry for a
\* battery only if the battery's flag is true, battery 0 before battery 1,
\* each entry a capacity read from that battery; with both flags false the
\* segment is empty in every line.
C12_BatterySegmentOnlyEnabled ==
    IsSome(status) =>
       /\ \E b0 \in BatShown("bat0", cap.battery_00_enable),
             b1 \in BatShown("bat1", cap.battery_01_enable) :
             Unwrap(status).battery_s = BatterySegment(b0, b1)
       /\ (~cap.battery_00_enable /\ ~cap.battery_01_enable)
             => Unwrap(status).battery_s = ""

\* Only battery 1 exists; battery 0's file, were it there, would read 80.
\* The line shows battery 1 alone.
C12_Witness ==
    /\ ~cap.battery_00_enable /\ cap.battery_01_enable
    /\ IsSome(status)
    /\ Unwrap(status).battery_s = " bat [55%],"
    /\ sent["bat0"] = <<>>

\* Whether the AC file f reads and parses to the online code 1.
AcReadsOnline(f) == f.readable /\ f.num /\ f.val = 1

\* C13: a rendered line carries the AC flag only if the AC sample the
\* updater received last was true; the collector sends true only if
\* ac_online_enable is true and the AC file read and parsed to 1 in that
\* iteration, and sends false when the read or the parse fails; with
\* ac_online_enable false no rendered line carries the AC flag.
C13_AcFlagOnlyWhenOnline ==
    /\ [](IsSome(status) =>
            /\ Unwrap(status).ac_indicator \in {"", " [AC]"}
            /\ Unwrap(status).ac_indicator # ""
                  => (rcvd["ac_online"] # <<>> /\ Last(rcvd["ac_online"]) = TRUE)
            /\ ~cap.ac_online_enable => Unwrap(status).ac_indicator = "")
    /\ [][Runs("ac_online")
            => /\ Enqueued("ac_online")
               /\ Last(sent'["ac_online"]) = TRUE
                     => (cap.ac_online_enable /\ AcReadsOnline(Unwrap(host).ac))
               /\ ~AcReadsOnline(Unwrap(host).ac)
                     => Last(sent'["ac_online"]) = FALSE]_vars

\* The adapter was online in the first iteration and its file held a code
\* outside the u8 in the second: the line first carried the flag, and the
\* line composed after the second sample does not.
C13_Witness ==
    /\ cap.ac_online_enable
    /\ sent["ac_online"] = <<TRUE, FALSE>>
    /\ rcvd["ac_online"] = <<TRUE, FALSE>>
    /\ IsSome(status)
    /\ Unwrap(status).ac_indicator = ""
    /\ host = Some(HostHuge)

\* C14: as long as the updater has received no message on a channel, the
\* last_* variable of the channel has its initial value: the empty string
\* for the two batteries and the address list, 0 for memory, CPU and
\* wattage, false for AC; and a status composed by then shows it: no
\* battery segment, no AC flag, memory 0 (as {:02} writes it), and likewise
\* CPU, wattage and addresses.
C14_DefaultsUntilFirstMessage ==
    /\ rcvd["bat0"] = <<>> => last["bat0"] = ""
    /\ rcvd["bat1"] = <<>> => last["bat1"] = ""
    /\ rcvd["ip_addresses"] = <<>> => last["ip_addresses"] = ""
    /\ rcvd["mem"] = <<>> => last["mem"] = 0
    /\ rcvd["cpu"] = <<>> => last["cpu"] = F32(0)
    /\ rcvd["wattage"] = <<>> => last["wattage"] = 0
    /\ rcvd["ac_online"] = <<>> => last["ac_online"] = FALSE
    /\ IsSome(status) =>
          /\ (rcvd["bat0"] = <<>> /\ rcvd["bat1"] = <<>>)
                => Unwrap(status).battery_s = ""
          /\ rcvd["ac_online"] = <<>> => Unwrap(status).ac_indicator = ""
          /\ rcvd["mem"] = <<>> => Unwrap(status).mem = "00"
          /\ rcvd["cpu"] = <<>> => Unwrap(status).cpu = "00"
          /\ rcvd["wattage"] = <<>> => Unwrap(status).pwr = "0.0"
          /\ rcvd["ip_addresses"] = <<>> => Unwrap(status).net = ""

\* The updater has composed a status after receiving CPU and AC samples
\* and, the batteries and the memory being unreadable, nothing yet for
\* them: it shows the samples next to the defaults.
C14_Witness ==
    /\ cap.battery_00_enable /\ cap.battery_01_enable /\ cap.ac_online_enable
    /\ rcvd["cpu"] # <<>>
    /\ rcvd["ac_online"] # <<>>
    /\ rcvd["mem"] = <<>> /\ rcvd["bat0"] = <<>> /\ rcvd["bat1"] = <<>>
    /\ rcvd["ip_addresses"] = <<>>
    /\ IsSome(status)
    /\ Unwrap(status).mem = "00"
    /\ Unwrap(status).battery_s = ""
    /\ xsetroot = "Ok"

\* Whether the f32 x is the whole number k.
IsWhole(x, k) == ~x.nan /\ x.val = k

\* C15: when the host lists at least one core, each reading in 0..100, the
\* CPU value the collector sends is the mean of the readings rounded up to
\* a whole number (the least k with k * cores >= sum), in 0..100; and
\* last_cpu_usage is at all times a whole number in 0..100.
C15_CpuWholePercent ==
    /\ [][(/\ Runs("cpu")
           /\ Unwrap(host).cpus # <<>>
           /\ \A i \in 1..Len(Unwrap(host).cpus) : Unwrap(host).cpus[i] \in 0..100)
            => LET cpus == Unwrap(host).cpus
                   sum == SumSeq(cpus, 1)
               IN  /\ Enqueued("cpu")
                   /\ \E k \in 0..100 :
                         /\ IsWhole(Last(sent'["cpu"]), k)
                         /\ k * Len(cpus) >= sum
                         /\ (k - 1) * Len(cpus) < sum]_vars
    /\ [](\E k \in 0..100 : IsWhole(last["cpu"], k))

\* The same for the listed cores alone: the part of C15 that is about
\* hosts with at least one core.
C15_MeanRoundedUp ==
    [][(Runs("cpu") /\ Unwrap(host).cpus # <<>>)
          => \E k \in 0..100 :
                /\ IsWhole(Last(sent'["cpu"]), k)
                /\ k * Len(Unwrap(host).cpus) >= SumSeq(Unwrap(host).cpus, 1)
                /\ (k - 1) * Len(Unwrap(host).cpus) < SumSeq(Unwrap(host).cpus, 1)]_vars

\* C16: the collector sends nothing, ever, on the channel of an optional
\* metric whose flag is false: battery 0, battery 1, the wattage when both
\* power flags are false, the AC status.
C16_DisabledChannelsSilent ==
    /\ ~cap.battery_00_enable => sent["bat0"] = <<>>
    /\ ~cap.battery_01_enable => sent["bat1"] = <<>>
    /\ (~cap.bat0_power_enable /\ ~cap.bat1_power_enable) => sent["wattage"] = <<>>
    /\ ~cap.ac_online_enable => sent["ac_online"] = <<>>

\* What does hold of the disabled metrics: no battery message; on the
\* wattage and AC channels only the values 0 and false, whatever the
\* sources hold.
C16_DisabledSendDefaults ==
    /\ ~cap.battery_00_enable => sent["bat0"] = <<>>
    /\ ~cap.battery_01_enable => sent["bat1"] = <<>>
    /\ (~cap.bat0_power_enable /\ ~cap.bat1_power_enable)
          => Range(sent["wattage"]) \subseteq {0}
    /\ ~cap.ac_online_enable => Range(sent["ac_online"]) \subseteq {FALSE}

\* The statements of a collector iteration, in program order, and the
\* place after the last.
Statements == <<"bat0", "bat1", "wattage", "ac_online", "mem", "cpu", "ip_addresses", "loop">>

\* A step of the collector thread.
CollectorStep == <<host, cpc, ticks, fault, sent>>' # <<host, cpc, ticks, fault, sent>>

\* C17: the updater never holds the collector up.  Wherever the updater
\* stands (before a poll, or retrying xsetroot) and however many messages
\* are pending, the statement the collector stands at can run; a statement
\* that sends has its message on the channel when it has run once, and the
\* collector is then at the next statement of the iteration (or has
\* unwound by itself), never at the same one again; after the last
\* statement the next iteration can start.
C17_CollectorNeverBlocked ==
    /\ []((cpc # "panicked" /\ (cpc = "loop" => ticks < MaxTicks))
            => ENABLED Collector)
    /\ [][CollectorStep =>
            /\ cpc' # cpc
            /\ \A i \in 1..7 :
                  cpc = Statements[i] =>
                     /\ cpc' \in {Statements[i + 1], "panicked"}
                     /\ sent'[Statements[i]] # sent[Statements[i]]
                           => Enqueued(Statements[i])
            /\ (cpc \in {"wattage", "ac_online", "cpu", "ip_addresses"}
                   /\ cpc' # "panicked") => Enqueued(cpc)
            /\ cpc = "loop" => (cpc' = "bat0" /\ ticks' = ticks + 1)
            /\ rpc' = rpc /\ xsetroot' = xsetroot]_vars

\* The updater polled before anything was sent and has been retrying a
\* failing xsetroot since; the collector has meanwhile run two whole
\* iterations, every message of which is pending.
C17_Witness ==
    /\ rpc = "xsetroot" /\ xsetroot = "Err"
    /\ \A m \in Metrics : rcvd[m] = <<>>
    /\ cpc = "loop" /\ ticks = 2
    /\ \A m \in Metrics : Len(chan[m]) = 2

\* Whether main has spawned one of the two loops.
LoopStarted == cpc # "unspawned" \/ rpc # "unspawned"

\* C18: no loop runs before the host name and the user name are both bound
\* to a name that was resolved, never to an empty placeholder; main leaves
\* the resolution of a name only with such a name (a failed attempt leaves
\* it where it was, to try again); and once the loops run, neither name
\* changes.
C18_StartupIdentity ==
    /\ [](LoopStarted =>
            /\ sys_host_name \notin {Unbound, ""}
            /\ sys_user_name \notin {Unbound, ""})
    /\ [][/\ (mpc = "name" /\ mpc' # "name") => sys_user_name' \notin {Unbound, ""}
          /\ (mpc = "hostname" /\ mpc' # "hostname") => sys_host_name' \notin {Unbound, ""}
          /\ LoopStarted => (sys_host_name' = sys_host_name
                              /\ sys_user_name' = sys_user_name)]_vars

\* The same without the demand on the user name: the host name is bound
\* before the loops run, and neither name changes while they run.
C18_HostNameResolved ==
    /\ [](LoopStarted => (sys_host_name \notin {Unbound, ""} /\ sys_user_name # Unbound))
    /\ [][/\ (mpc = "hostname" /\ mpc' # "hostname") => sys_host_name' \notin {Unbound, ""}
          /\ LoopStarted => (sys_host_name' = sys_host_name
                              /\ sys_user_name' = sys_user_name)]_vars

\* C19: an updater iteration takes at most one message from each channel,
\* the oldest: of k >= 1 pending messages k - 1 are pending after its poll,
\* in the same order, and an empty channel stays empty; no other step of
\* the updater takes a message.  So last_* of a channel goes through the
\* values sent on it one by one in the order sent, none skipped: what has
\* been stored so far is an initial part of what has been sent, last_* is
\* the end of it, and a poll stores the next sent value or nothing.
C19_OneMessagePerTick ==
    /\ [][PollStep =>
            \A m \in Metrics :
               /\ chan[m] = <<>> => (chan'[m] = <<>> /\ rcvd'[m] = rcvd[m])
               /\ chan[m] # <<>> =>
                     /\ Len(chan'[m]) = Len(chan[m]) - 1
                     /\ chan'[m] = Tail(chan[m])
                     /\ rcvd'[m] = Append(rcvd[m], Head(chan[m]))
                     /\ write_enable(cap, m) => last'[m] = sent[m][Len(written[m]) + 1]
               /\ Len(written'[m]) <= Len(written[m]) + 1]_vars
    /\ [][rpc = "xsetroot" => \A m \in Metrics : IsPrefix(chan[m], chan'[m])]_vars
    /\ [](\A m \in Metrics :
            /\ IsPrefix(written[m], sent[m])
            /\ written[m] # <<>> => last[m] = Last(written[m]))

\* Two memory readings were sent; the updater has taken the first and shows
\* it, the second is still pending, as is one message on every channel
\* that is sent on in every iteration.
C19_Witness ==
    /\ rpc = "xsetroot" /\ xsetroot = ""
    /\ sent["mem"] = <<42, 75>>
    /\ rcvd["mem"] = <<42>> /\ chan["mem"] = <<75>>
    /\ last["mem"] = 42 /\ Unwrap(status).mem = "42"
    /\ \A m \in {"wattage", "ac_online", "cpu", "ip_addresses"} :
          Len(rcvd[m]) = 1 /\ Len(chan[m]) = 1

====
